---------------------------- MODULE Spec2Model ----------------------------
(***************************************************************************)
(* A model of nifty.py: the single-run pct-COI ranking job.  One run of    *)
(* main() is a sequence of steps (pc); the history sheet persists between  *)
(* runs.  Integers stand for Python ints, a pct_coi value is kept as the   *)
(* exact quotient it was computed from, and a call to the Sheets service   *)
(* or to NSE may succeed or raise.                                         *)
(***************************************************************************)
EXTENDS Integers, Sequences, FiniteSets, TLC

VARIABLES
    pc,                \* the statement of main() the run is at
    SYMBOL,            \* nifty.py:28, the symbol of the current run
    NEAREST_STRIKES,   \* nifty.py:29
    ALERT_TOP_N,       \* nifty.py:30
    MIN_POSITIVE_PCT,  \* nifty.py:45
    runs,              \* number of runs started so far
    clock,             \* wall clock, in seconds
    history,           \* rows of the history sheet below its header
    alerts,            \* rows this run appended to the alerts sheet
    execution_log,     \* rows this run appended to the execution_log sheet
    stdout,            \* the status lines this run printed
    client,            \* main's client is not None
    spreadsheet,       \* main's spreadsheet is not None
    attempt,           \* loop index of fetch_option_chain_direct
    net,               \* sleeps and requests of the fetch call in progress
    log_calls,         \* this run's attempts to record a status
    data,              \* the payload fetch_option_chain_direct returned
    df,                \* the normalized table, or None
    underlying,        \* the reference price, or None
    sel,               \* the selected neighborhood
    prev_sel,          \* the previous snapshot read from history, or None
    hist_rows,         \* the history rows prepared by this run
    rows_ce,           \* DiffRows of the CE side
    rows_pe,           \* DiffRows of the PE side
    df_ce_alerts,      \* ranked, filtered, truncated CE DiffRows
    df_pe_alerts,      \* ranked, filtered, truncated PE DiffRows
    alert_rows         \* the alert batch of this run

vars == << pc, SYMBOL, NEAREST_STRIKES, ALERT_TOP_N, MIN_POSITIVE_PCT,
           runs, clock, history, alerts, execution_log, stdout, client,
           spreadsheet, attempt, net, log_calls, data, df, underlying, sel,
           prev_sel, hist_rows, rows_ce, rows_pe, df_ce_alerts,
           df_pe_alerts, alert_rows >>

----------------------------------------------------------------------------
(* Bounds of the model.                                                    *)

\* runs of the job the model follows one after the other
MaxRuns == 3
\* strikes of the option chain are 1..MaxStrike
MaxStrike == 3

(* Program constants.                                                      *)

\* retries=3 in the call of fetch_option_chain_direct
Retries == 3
\* 1 / MIN_PREV_OI_DENOM: MIN_PREV_OI_DENOM = 1e-9
EpsInv == 1000000000

----------------------------------------------------------------------------
(* Optional values: Python's None is the empty sequence, a value v is <<v>>. *)

None == << >>
Some(v) == << v >>
IsNone(o) == Len(o) = 0
Val(o) == o[1]

\* None for a DataFrame variable; a DataFrame is [some |-> TRUE, rows |-> ...]
NoneDF == [some |-> FALSE, rows |-> << >>]
DF(rws) == [some |-> TRUE, rows |-> rws]

Range(s) == { s[i] : i \in 1..Len(s) }

Abs(x) == IF x < 0 THEN -x ELSE x

Min(a, b) == IF a <= b THEN a ELSE b

\* all orderings of n rows (the permutations of 1..n), tabulated once
PermTable ==
    [ n \in 0..MaxStrike |->
        { p \in [1..n -> 1..n] : \A i, j \in 1..n : i # j => p[i] # p[j] } ]

Perms(n) == PermTable[n]

\* DataFrame.head(n) for n >= 0
Head_n(s, n) == SubSeq(s, 1, Min(n, Len(s)))

----------------------------------------------------------------------------
(* pct_coi values.  A value is the quotient num / den it was computed as;  *)
(* eps = TRUE says the denominator is MIN_PREV_OI_DENOM (den is 1 then),   *)
(* i.e. the value is num / 1e-9.  All numerators and denominators of the   *)
(* model are below EpsInv in absolute value.                               *)

Quot(n, d) == [num |-> n, den |-> d, eps |-> FALSE]
QuotEps(n) == [num |-> n, den |-> 1, eps |-> TRUE]
Zero == Quot(0, 1)

\* x / 1e-9 > y for integers |y| < EpsInv
ScaledGT(x, y) == (x >= 1 /\ y < EpsInv) \/ (x = 0 /\ 0 > y)
\* x / 1e-9 < y for integers |y| < EpsInv
ScaledLT(x, y) == (x <= -1 /\ y > -EpsInv) \/ (x = 0 /\ 0 < y)

\* a > b on quotients
PctGT(a, b) ==
    CASE a.eps = b.eps -> a.num * b.den > b.num * a.den
      [] a.eps /\ ~b.eps -> ScaledGT(a.num * b.den, b.num)
      [] OTHER -> ScaledLT(b.num * a.den, a.num)

PctEq(a, b) == ~PctGT(a, b) /\ ~PctGT(b, a)
PctGE(a, b) == ~PctGT(b, a)

----------------------------------------------------------------------------
(* The raw feed.  A raw scalar is a JSON number (v holds it in tenths, so  *)
(* that 12.7 is 127), null, or a string that is no number.  A JSON object  *)
(* is a record that may lack keys; a null in the place of a side object    *)
(* has t = "null".                                                         *)

RawNum(i) == [t |-> "num", v |-> 10 * i]
RawDec(tenths) == [t |-> "num", v |-> tenths]
RawNull == [t |-> "null", v |-> 0]
RawStr == [t |-> "str", v |-> 0]

\* the strike cell of a row whose entry has "strikePrice": null: the null is
\* kept as it is (None, NaN in a numeric column).  sort_values puts it
\* after every number and drop_duplicates takes two of them as equal, which
\* is how a value above every strike behaves.
NaN == MaxStrike + 100

\* dict.get(k, default)
Get(f, k, default) == IF k \in DOMAIN f THEN f[k] ELSE default

\* int(float(x)) of a number given in tenths: truncation toward zero
TruncTenths(v) == IF v >= 0 THEN v \div 10 ELSE -((-v) \div 10)

safe_int(x) == IF x.t = "num" THEN TruncTenths(x.v) ELSE 0

\* the float is kept in tenths
safe_float(x) == IF x.t = "num" THEN x.v ELSE 0

EmptyObj == [t |-> "obj"]

\* one appended row of records_to_df (nifty.py:154-178)
RowOf(rec) ==
    LET ce == Get(rec, "CE", EmptyObj)
        pe == Get(rec, "PE", EmptyObj)
    IN  [ strike |-> Get(rec, "strikePrice", 0),
          CE_OI  |-> safe_int(Get(ce, "openInterest", RawNum(0))),
          CE_COI |-> safe_int(Get(ce, "changeinOpenInterest", RawNum(0))),
          CE_IV  |-> safe_float(Get(ce, "impliedVolatility", RawNum(0))),
          PE_OI  |-> safe_int(Get(pe, "openInterest", RawNum(0))),
          PE_COI |-> safe_int(Get(pe, "changeinOpenInterest", RawNum(0))),
          PE_IV  |-> safe_float(Get(pe, "impliedVolatility", RawNum(0))) ]

\* ce.get / pe.get on a null side object raises AttributeError
RowRaises(rec) ==
    \/ Get(rec, "CE", EmptyObj).t = "null"
    \/ Get(rec, "PE", EmptyObj).t = "null"

\* DataFrame.drop_duplicates(subset=['strike']): the first row of each strike
drop_duplicates(rws) ==
    LET keep == { i \in 1..Len(rws) :
                    \A j \in 1..(i - 1) : rws[j].strike # rws[i].strike }
    IN  { rws[i] : i \in keep }

\* rows with distinct strikes, ascending by strike
RECURSIVE SortByStrike(_)
SortByStrike(S) ==
    IF S = {} THEN << >>
    ELSE LET m == CHOOSE r \in S : \A q \in S : r.strike <= q.strike
         IN  << m >> \o SortByStrike(S \ {m})

\* records_to_df (nifty.py:150-181): the table, or ok = FALSE when it raises
records_to_df(records) ==
    IF \E i \in 1..Len(records) : RowRaises(records[i])
    THEN [ok |-> FALSE, rows |-> << >>]
    ELSE [ok |-> TRUE,
          rows |-> SortByStrike(drop_duplicates(
                       [i \in 1..Len(records) |-> RowOf(records[i])]))]

----------------------------------------------------------------------------
(* Sorting.  DataFrame.sort_values is called without kind=, so it sorts    *)
(* with the default 'quicksort', which pandas documents as not stable:     *)
(* rows with equal keys may come out in any order.  SortValues is the set  *)
(* of orders the call may return.                                          *)

\* before[i][j] says that the key of row i sorts strictly before that of row j
SortValues(s, before) ==
    LET n == Len(s)
        ok(p) == \A i \in 1..(n - 1) : ~before[p[i + 1]][p[i]]
    IN  { [i \in 1..n |-> s[p[i]]] : p \in { q \in Perms(n) : ok(q) } }

----------------------------------------------------------------------------
(* pick_nearest (nifty.py:183-188): the results the call may return.       *)

Dist(r, ref) == Abs(r.strike - ref)

\* sort_values('dist'), ascending
SortByDist(rws, ref) ==
    SortValues(rws, [ i \in 1..Len(rws) |-> [ j \in 1..Len(rws) |->
                        Dist(rws[i], ref) < Dist(rws[j], ref) ] ])

\* sort_values('strike'), ascending
SortValuesByStrike(rws) ==
    SortValues(rws, [ i \in 1..Len(rws) |-> [ j \in 1..Len(rws) |->
                        rws[i].strike < rws[j].strike ] ])

\* the selection without the second sort, left in order of distance
pick_nearest_by_dist(rws, ref, n) ==
    { Head_n(s, n) : s \in SortByDist(rws, ref) }

pick_nearest(rws, ref, n) ==
    UNION { SortValuesByStrike(Head_n(s, n)) : s \in SortByDist(rws, ref) }

----------------------------------------------------------------------------
(* The history sheet and the previous snapshot (nifty.py:330-357).  A cell *)
(* holds the value that was written: the program writes ints and a fixed   *)
(* width time stamp, whose string order is the order of the clock.         *)

\* one row of hist_rows (nifty.py:352-357), stamped with datetime.now() = ts
HistRow(r, ts, symbol, u) ==
    [ timestamp |-> ts, symbol |-> symbol, underlying |-> u,
      strike |-> r.strike,
      CE_OI |-> r.CE_OI, CE_COI |-> r.CE_COI, CE_IV |-> r.CE_IV,
      PE_OI |-> r.PE_OI, PE_COI |-> r.PE_COI, PE_IV |-> r.PE_IV ]

\* df_hist['timestamp'].max()
MaxTimestamp(hist) ==
    CHOOSE m \in { hist[i].timestamp : i \in 1..Len(hist) } :
        \A i \in 1..Len(hist) : hist[i].timestamp <= m

\* the columns kept in prev_sel (nifty.py:341-344)
PrevRow(h) ==
    [ strike |-> h.strike,
      CE_OI |-> h.CE_OI, CE_COI |-> h.CE_COI, CE_IV |-> h.CE_IV,
      PE_OI |-> h.PE_OI, PE_COI |-> h.PE_COI, PE_IV |-> h.PE_IV ]

\* nifty.py:338: the rows of the latest time stamp that carry the symbol
last_snapshot(hist, symbol) ==
    LET last_ts == MaxTimestamp(hist)
    IN  SelectSeq(hist, LAMBDA h : h.timestamp = last_ts /\ h.symbol = symbol)

\* nifty.py:331-345 when get_all_values() returns: prev_sel
read_previous(hist, symbol) ==
    IF Len(hist) = 0 THEN NoneDF
    ELSE LET snap == last_snapshot(hist, symbol)
         IN  IF snap = << >> THEN NoneDF
             ELSE DF([i \in 1..Len(snap) |-> PrevRow(snap[i])])

----------------------------------------------------------------------------
(* The differencer (nifty.py:378-404).                                     *)

OI(r, side) == IF side = "CE" THEN r.CE_OI ELSE r.PE_OI
COI(r, side) == IF side = "CE" THEN r.CE_COI ELSE r.PE_COI

\* the quotient taken on the magnitude of the change, whatever its sign
PctCoiAbs(curr_coi, prev_oi) ==
    IF curr_coi # 0
    THEN IF prev_oi >= 1 THEN Quot(Abs(curr_coi), prev_oi)
         ELSE QuotEps(Abs(curr_coi))
    ELSE Zero

\* the quotient without the guard of the divisor
PctCoiNoGuard(curr_coi, prev_oi) ==
    IF curr_coi > 0 THEN Quot(curr_coi, prev_oi) ELSE Zero

\* nifty.py:395-396: curr_coi / max(prev_oi, MIN_PREV_OI_DENOM) if
\* curr_coi > 0 else 0.0; an int prev_oi exceeds 1e-9 exactly when it is >= 1
PctCoi(curr_coi, prev_oi) ==
    IF curr_coi > 0
    THEN IF prev_oi >= 1 THEN Quot(curr_coi, prev_oi) ELSE QuotEps(curr_coi)
    ELSE Zero

\* nifty.py:398-401: the strike has no entry in prev_map
PctNoPrev(curr_coi) == Zero

\* set_index('strike').to_dict('index') raises ValueError on repeated strikes
PrevMapRaises(prev_rows) ==
    \E i, j \in 1..Len(prev_rows) :
        i # j /\ prev_rows[i].strike = prev_rows[j].strike

\* prev_map.get(s): the set holding the entry of strike s, empty when absent
PrevMapGet(prev_rows, s) == { p \in Range(prev_rows) : p.strike = s }

\* the dict appended to rows_ce / rows_pe for current row r (nifty.py:385-404)
DiffRow(r, prev_rows, side) ==
    LET pm == PrevMapGet(prev_rows, r.strike)
    IN  IF pm # {}
        THEN LET prev_oi == OI(CHOOSE p \in pm : TRUE, side)
             IN  [ strike |-> r.strike, prev_oi |-> prev_oi,
                   curr_oi |-> OI(r, side), coi |-> COI(r, side),
                   pct_coi |-> PctCoi(COI(r, side), prev_oi) ]
        ELSE [ strike |-> r.strike, prev_oi |-> 0,
               curr_oi |-> OI(r, side), coi |-> COI(r, side),
               pct_coi |-> PctNoPrev(COI(r, side)) ]

DiffRows(cur, prev_rows, side) ==
    [i \in 1..Len(cur) |-> DiffRow(cur[i], prev_rows, side)]

----------------------------------------------------------------------------
(* The ranker (nifty.py:406-431).                                          *)

\* the sort with sort_values' default, ascending=True
SortByPctAscending(rws) ==
    SortValues(rws, [ i \in 1..Len(rws) |-> [ j \in 1..Len(rws) |->
                        PctGT(rws[j].pct_coi, rws[i].pct_coi) ] ])

\* sort_values('pct_coi', ascending=False): the orders it may return
SortByPct(rws) ==
    SortValues(rws, [ i \in 1..Len(rws) |-> [ j \in 1..Len(rws) |->
                        PctGT(rws[i].pct_coi, rws[j].pct_coi) ] ])

\* the filter with >= in the place of >
QualifiesGE(d, threshold) == PctGE(d.pct_coi, threshold)

\* df[df['pct_coi'] > MIN_POSITIVE_PCT]
Qualifies(d, threshold) == PctGT(d.pct_coi, threshold)

\* nifty.py:409-410 applied to one sorted table
TopAlerts(sorted, threshold, top_n) ==
    Head_n(SelectSeq(sorted, LAMBDA d : Qualifies(d, threshold)), top_n)

\* nifty.py:415-431: the rows built from one side's alerts, ranks from 1
AlertRowsOf(al, side, ts, symbol, u) ==
    [ i \in 1..Len(al) |->
        [ timestamp |-> ts, symbol |-> symbol, underlying |-> u,
          event_rank |-> i,
          event_type |-> IF side = "PE" THEN "Put-writer spike"
                                         ELSE "Call-writer spike",
          strike |-> al[i].strike, side |-> side,
          pct_coi |-> al[i].pct_coi,
          details |-> [ prev_OI |-> al[i].prev_oi, curr_COI |-> al[i].coi,
                        pct_coi |-> al[i].pct_coi ] ] ]

----------------------------------------------------------------------------
(* The execution log (nifty.py:222-238).  append_execution_log never       *)
(* raises: when the Sheets call fails it prints a warning and returns.     *)

LogRow(ts, status, details) ==
    [timestamp_utc |-> ts, status |-> status, details |-> details]

\* the logs a call of append_execution_log may leave
append_execution_log(log, ts, status, details) ==
    { log, Append(log, LogRow(ts, status, details)) }

\* the logs left by "if spreadsheet: append_execution_log(...)"
LogIfSheet(sheet, log, ts, status, details) ==
    IF sheet THEN append_execution_log(log, ts, status, details) ELSE { log }

----------------------------------------------------------------------------
(* The payloads of the model.                                              *)

RawSide(oi, coi) ==
    [ t |-> "obj", openInterest |-> RawNum(oi),
      changeinOpenInterest |-> RawNum(coi), impliedVolatility |-> RawNum(0) ]

RawEntry(s, ce_oi, ce_coi, pe_oi, pe_coi) ==
    [ strikePrice |-> s, CE |-> RawSide(ce_oi, ce_coi),
      PE |-> RawSide(pe_oi, pe_coi) ]

\* a response whose JSON has records.data; underlyingValue may be missing
Payload(entries, u) == [data |-> entries, underlyingValue |-> u]

ChainA ==
    << RawEntry(1, 1, 1, 0, 2), RawEntry(2, 1, 1, 2, -1),
       RawEntry(3, 0, 0, 1, 1) >>

ChainB ==
    << RawEntry(3, 1, 2, 2, 1), RawEntry(2, 2, 2, 2, 1),
       RawEntry(1, 1, -1, 0, 0), RawEntry(2, 0, 0, 0, 0) >>

ChainNullSide ==
    << [strikePrice |-> 1, CE |-> [t |-> "null"], PE |-> RawSide(1, 1)] >>

\* the answers of the endpoint in the runs the model follows
SmallMarket ==
    { Payload(ChainA, Some(1)), Payload(ChainB, Some(3)),
      Payload(ChainA, None), Payload(<< >>, Some(1)),
      Payload(ChainNullSide, Some(1)) }

Symbols == { "NIFTY", "BANKNIFTY" }

\* MIN_POSITIVE_PCT = 0.0001, the default
DefaultThreshold == Quot(1, 10000)

----------------------------------------------------------------------------
(* What a run did to record a status, and what a fetch call did on the     *)
(* network.                                                                *)

\* log_calls after a call of append_execution_log (or, in the handler of an
\* unhandled exception, after the attempt to open the sheet for it): ok
\* says that the row was appended
Called(status) ==
    Append(log_calls, [status |-> status, ok |-> execution_log' # execution_log])

\* log_calls after "if spreadsheet: append_execution_log(...)"
CalledIfSheet(status) == IF spreadsheet THEN Called(status) ELSE log_calls

\* nifty.py:103: time.sleep(random.uniform(1, 3))
Jitter == [ev |-> "jitter", secs |-> 0, how |-> "-"]

\* nifty.py:109-125: session.get and what became of it: "ok" (data is
\* returned), "bad" (another status than 200, or a structure without
\* records.data), "raised" (get or json raised)
Request(how) == [ev |-> "get", secs |-> 0, how |-> how]

\* nifty.py:129-131: time.sleep(wait_time)
Backoff(secs) == [ev |-> "backoff", secs |-> secs, how |-> "-"]

\* nifty.py:128-131 after the failed attempt of loop index a
WaitBeforeRetry(a) ==
    IF a < Retries - 1 THEN << Backoff((a + 1) * 5) >> ELSE << >>

----------------------------------------------------------------------------
(* The state of a process before main() has run.                           *)

FreshRun ==
    /\ client = FALSE
    /\ spreadsheet = FALSE
    /\ attempt = 0
    /\ net = << >>
    /\ log_calls = << >>
    /\ data = None
    /\ df = NoneDF
    /\ underlying = None
    /\ sel = << >>
    /\ prev_sel = NoneDF
    /\ hist_rows = << >>
    /\ rows_ce = << >>
    /\ rows_pe = << >>
    /\ df_ce_alerts = << >>
    /\ df_pe_alerts = << >>
    /\ alert_rows = << >>
    /\ alerts = << >>
    /\ execution_log = << >>
    /\ stdout = << >>

Init ==
    /\ pc = "idle"
    /\ SYMBOL = "NIFTY"
    /\ NEAREST_STRIKES = 2
    /\ ALERT_TOP_N = 1
    /\ MIN_POSITIVE_PCT = DefaultThreshold
    /\ runs = 0
    /\ clock = 0
    /\ history = << >>
    /\ FreshRun

config == << NEAREST_STRIKES, ALERT_TOP_N, MIN_POSITIVE_PCT >>

diffVars == << rows_ce, rows_pe, df_ce_alerts, df_pe_alerts, alert_rows >>

fetchVars == << attempt, data, df, underlying >>

----------------------------------------------------------------------------
(* The scheduler starts the job: a new process, for one of the symbols.    *)
(* Every fetch attempt sleeps at least a second (nifty.py:103) before      *)
(* anything is stamped, so the rows of a run are stamped later than those  *)
(* of the runs before it; clock counts the seconds that get stamped.       *)

StartRun ==
    /\ pc \in { "idle", "done", "exit2" }
    /\ runs < MaxRuns
    /\ \E s \in Symbols : SYMBOL' = s
    /\ runs' = runs + 1
    /\ clock' = clock + 1
    /\ pc' = "init_sheets"
    /\ client' = FALSE
    /\ spreadsheet' = FALSE
    /\ attempt' = 0
    /\ net' = << >>
    /\ log_calls' = << >>
    /\ data' = None
    /\ df' = NoneDF
    /\ underlying' = None
    /\ sel' = << >>
    /\ prev_sel' = NoneDF
    /\ hist_rows' = << >>
    /\ rows_ce' = << >>
    /\ rows_pe' = << >>
    /\ df_ce_alerts' = << >>
    /\ df_pe_alerts' = << >>
    /\ alert_rows' = << >>
    /\ alerts' = << >>
    /\ execution_log' = << >>
    /\ stdout' = << >>
    /\ UNCHANGED << config, history >>

\* nifty.py:248-260
InitSheets ==
    /\ pc = "init_sheets"
    /\ pc' = "fetch"
    /\ \/ \* sheets_client_from_service_account raises
          /\ client' = FALSE /\ spreadsheet' = FALSE
          /\ UNCHANGED << execution_log, log_calls >>
       \/ \* open_or_create_spreadsheet raises
          /\ client' = TRUE /\ spreadsheet' = FALSE
          /\ UNCHANGED << execution_log, log_calls >>
       \/ /\ client' = TRUE /\ spreadsheet' = TRUE
          /\ execution_log' \in
                append_execution_log(execution_log, clock, "STARTED", "started")
          /\ log_calls' = Called("STARTED")
    /\ UNCHANGED << net >>
    /\ UNCHANGED << SYMBOL, config, runs, clock, history, alerts, stdout,
                    fetchVars, sel, prev_sel, hist_rows, diffVars >>

\* the loop without its bound: a failed attempt is always followed by one more
FetchAttemptUnbounded ==
    /\ pc = "fetch"
    /\ \/ /\ \E p \in SmallMarket : data' = Some(p)
          /\ net' = net \o << Jitter, Request("ok") >>
          /\ pc' = "normalize"
          /\ UNCHANGED attempt
       \/ /\ \E how \in { "bad", "raised" } :
                net' = net \o << Jitter, Request(how) >>
          /\ attempt' = attempt + 1
          /\ pc' = "fetch"
          /\ UNCHANGED data
    /\ UNCHANGED << log_calls >>
    /\ UNCHANGED << SYMBOL, config, runs, clock, history, alerts,
                    execution_log, stdout, client, spreadsheet, df,
                    underlying, sel, prev_sel, hist_rows, diffVars >>

\* one pass of the loop of fetch_option_chain_direct (nifty.py:97-147)
FetchAttempt ==
    /\ pc = "fetch"
    /\ \/ \* status 200 and a payload with records.data: return data
          /\ \E p \in SmallMarket : data' = Some(p)
          /\ net' = net \o << Jitter, Request("ok") >>
          /\ pc' = "normalize"
          /\ UNCHANGED attempt
       \/ \* another status, or "Invalid data structure in response"
          /\ net' = net \o << Jitter, Request("bad") >>
                        \o WaitBeforeRetry(attempt)
          /\ IF attempt < Retries - 1
             THEN attempt' = attempt + 1 /\ pc' = "fetch"
             ELSE attempt' = attempt /\ pc' = "fetch_failed"
          /\ UNCHANGED data
       \/ \* the request raises (ProxyError or another exception): the
          \* except blocks re-raise on the last attempt and else fall
          \* through to the next pass of the loop
          /\ net' = net \o << Jitter, Request("raised") >>
          /\ IF attempt = Retries - 1
             THEN attempt' = attempt /\ pc' = "fetch_failed"
             ELSE attempt' = attempt + 1 /\ pc' = "fetch"
          /\ UNCHANGED data
    /\ UNCHANGED << log_calls >>
    /\ UNCHANGED << SYMBOL, config, runs, clock, history, alerts,
                    execution_log, stdout, client, spreadsheet, df,
                    underlying, sel, prev_sel, hist_rows, diffVars >>

\* nifty.py:270-276, with the except of 277-286 when records_to_df raises
Normalize ==
    /\ pc = "normalize"
    /\ LET records == Val(data).data
           norm == records_to_df(records)
       IN  /\ underlying' = Val(data).underlyingValue
           /\ IF Len(records) > 0
              THEN IF norm.ok
                   THEN df' = DF(norm.rows) /\ pc' = "check_data"
                   ELSE df' = NoneDF /\ pc' = "fetch_failed"
              ELSE df' = NoneDF /\ pc' = "check_data"
    /\ net' = << >>
    /\ UNCHANGED << log_calls >>
    /\ UNCHANGED << SYMBOL, config, runs, clock, history, alerts,
                    execution_log, stdout, client, spreadsheet, attempt,
                    data, sel, prev_sel, hist_rows, diffVars >>

\* nifty.py:277-286: the except block of the fetch
FetchFailed ==
    /\ pc = "fetch_failed"
    /\ stdout' = Append(stdout, "Primary fetch failed")
    /\ execution_log' \in LogIfSheet(spreadsheet, execution_log, clock,
                                     "FAILED", "NSE fetch failed")
    /\ log_calls' = CalledIfSheet("FAILED")
    /\ net' = << >>
    /\ pc' = "check_data"
    /\ UNCHANGED << SYMBOL, config, runs, clock, history, alerts, client,
                    spreadsheet, fetchVars, sel, prev_sel, hist_rows,
                    diffVars >>

\* the no-data branch without its return
NoUsableDataFallsThrough ==
    /\ pc = "check_data"
    /\ (~df.some \/ df.rows = << >>)
    /\ stdout' = Append(stdout, "No usable NSE data available")
    /\ execution_log' \in LogIfSheet(spreadsheet, execution_log, clock,
                                     "FAILED", "No usable NSE data")
    /\ log_calls' = CalledIfSheet("FAILED")
    /\ pc' = "select"
    /\ UNCHANGED << net >>
    /\ UNCHANGED << SYMBOL, config, runs, clock, history, alerts, client,
                    spreadsheet, fetchVars, sel, prev_sel, hist_rows,
                    diffVars >>

\* nifty.py:289-297
NoUsableData ==
    /\ pc = "check_data"
    /\ (~df.some \/ df.rows = << >>)
    /\ stdout' = Append(stdout, "No usable NSE data available")
    /\ execution_log' \in LogIfSheet(spreadsheet, execution_log, clock,
                                     "FAILED", "No usable NSE data")
    /\ log_calls' = CalledIfSheet("FAILED")
    /\ pc' = "done"
    /\ UNCHANGED << net >>
    /\ UNCHANGED << SYMBOL, config, runs, clock, history, alerts, client,
                    spreadsheet, fetchVars, sel, prev_sel, hist_rows,
                    diffVars >>

\* nifty.py:300; the subtraction strike - None raises TypeError
Select ==
    /\ pc = "select" \/ (pc = "check_data" /\ df.some /\ df.rows # << >>)
    /\ IF IsNone(underlying)
       THEN sel' = sel /\ pc' = "unhandled"
       ELSE /\ sel' \in pick_nearest(df.rows, Val(underlying), NEAREST_STRIKES)
            /\ pc' = "connect"
    /\ UNCHANGED << net, log_calls >>
    /\ UNCHANGED << SYMBOL, config, runs, clock, history, alerts,
                    execution_log, stdout, client, spreadsheet, fetchVars,
                    prev_sel, hist_rows, diffVars >>

\* nifty.py:307-323
Connect ==
    /\ pc = "connect"
    /\ \/ \* nothing to create, or every creation succeeds
          /\ client' = TRUE /\ spreadsheet' = TRUE
          /\ pc' = "ensure_ws"
          /\ UNCHANGED stdout
       \/ \* sheets_client_from_service_account raises
          /\ ~client
          /\ UNCHANGED << client, spreadsheet >>
          /\ stdout' = Append(stdout, "Failed to create Sheets client")
          /\ pc' = "done"
       \/ \* open_or_create_spreadsheet raises; spreadsheet stays None, so
          \* the except block appends nothing to the execution log
          /\ ~spreadsheet
          /\ client' = TRUE /\ spreadsheet' = FALSE
          /\ stdout' = Append(stdout, "Failed to create Sheets client")
          /\ pc' = "done"
    /\ UNCHANGED << net, log_calls >>
    /\ UNCHANGED << SYMBOL, config, runs, clock, history, alerts,
                    execution_log, fetchVars, sel, prev_sel, hist_rows,
                    diffVars >>

\* nifty.py:325-328; an exception of ensure_worksheet is not caught in main
EnsureWorksheets ==
    /\ pc = "ensure_ws"
    /\ pc' \in { "read_prev", "unhandled" }
    /\ UNCHANGED << net, log_calls >>
    /\ UNCHANGED << SYMBOL, config, runs, clock, history, alerts,
                    execution_log, stdout, client, spreadsheet, fetchVars,
                    sel, prev_sel, hist_rows, diffVars >>

\* nifty.py:330-347
ReadPrevious ==
    /\ pc = "read_prev"
    /\ \/ /\ prev_sel' = read_previous(history, SYMBOL)
          /\ UNCHANGED stdout
       \/ \* get_all_values raises
          /\ prev_sel' = NoneDF
          /\ stdout' = Append(stdout, "Could not read history")
    /\ pc' = "prep_hist"
    /\ UNCHANGED << net, log_calls >>
    /\ UNCHANGED << SYMBOL, config, runs, clock, history, alerts,
                    execution_log, client, spreadsheet, fetchVars, sel,
                    hist_rows, diffVars >>

\* nifty.py:349-359: every row calls datetime.now(); the second may change
\* after row k
PrepareHistory ==
    /\ pc = "prep_hist"
    /\ IF \E i \in 1..Len(sel) : sel[i].strike = NaN
       THEN \* int(r['strike']) raises on a null strike
            /\ pc' = "unhandled"
            /\ UNCHANGED << hist_rows, clock >>
       ELSE /\ \E k \in 1..Len(sel) :
                  /\ hist_rows' =
                        [ i \in 1..Len(sel) |->
                            HistRow(sel[i],
                                    IF i <= k THEN clock ELSE clock + 1,
                                    SYMBOL, Val(underlying)) ]
                  /\ clock' = IF k < Len(sel) THEN clock + 1 ELSE clock
            /\ pc' = IF ~prev_sel.some \/ prev_sel.rows = << >>
                     THEN "persist_only" ELSE "difference"
    /\ UNCHANGED << net, log_calls >>
    /\ UNCHANGED << SYMBOL, config, runs, history, alerts, execution_log,
                    stdout, client, spreadsheet, fetchVars, sel, prev_sel,
                    diffVars >>

\* the no-previous path appending the history rows a second time
PersistSnapshotTwice ==
    /\ pc = "persist_only"
    /\ history' = history \o hist_rows \o hist_rows
    /\ stdout' = stdout \o << "Appended history rows",
                              "No previous snapshot for comparison" >>
    /\ execution_log' \in
          append_execution_log(execution_log, clock, "COMPLETED",
                               "No previous snapshot; history appended")
    /\ log_calls' = Called("COMPLETED")
    /\ pc' = "done"
    /\ UNCHANGED << net >>
    /\ UNCHANGED << SYMBOL, config, runs, clock, alerts, client, spreadsheet,
                    fetchVars, sel, prev_sel, hist_rows, diffVars >>

\* nifty.py:359-376
PersistSnapshotOnly ==
    /\ pc = "persist_only"
    /\ \/ /\ history' = history \o hist_rows
          /\ stdout' = stdout \o << "Appended history rows",
                                    "No previous snapshot for comparison" >>
          /\ execution_log' \in
                append_execution_log(execution_log, clock, "COMPLETED",
                                     "No previous snapshot; history appended")
          /\ log_calls' = Called("COMPLETED")
       \/ \* append_rows raises
          /\ UNCHANGED history
          /\ stdout' = Append(stdout, "Failed to append history")
          /\ execution_log' \in
                append_execution_log(execution_log, clock, "FAILED",
                                     "Failed to append history")
          /\ log_calls' = Called("FAILED")
    /\ pc' = "done"
    /\ UNCHANGED << net >>
    /\ UNCHANGED << SYMBOL, config, runs, clock, alerts, client, spreadsheet,
                    fetchVars, sel, prev_sel, hist_rows, diffVars >>

\* nifty.py:378-404
Difference ==
    /\ pc = "difference"
    /\ IF PrevMapRaises(prev_sel.rows)
       THEN /\ pc' = "unhandled"
            /\ UNCHANGED << rows_ce, rows_pe >>
       ELSE /\ rows_ce' = DiffRows(sel, prev_sel.rows, "CE")
            /\ rows_pe' = DiffRows(sel, prev_sel.rows, "PE")
            /\ pc' = "rank"
    /\ UNCHANGED << net, log_calls >>
    /\ UNCHANGED << SYMBOL, config, runs, clock, history, alerts,
                    execution_log, stdout, client, spreadsheet, fetchVars,
                    sel, prev_sel, hist_rows, df_ce_alerts, df_pe_alerts,
                    alert_rows >>

\* nifty.py:406-431
Rank ==
    /\ pc = "rank"
    /\ df_ce_alerts' \in
          { TopAlerts(df_ce, MIN_POSITIVE_PCT, ALERT_TOP_N) :
              df_ce \in SortByPct(rows_ce) }
    /\ df_pe_alerts' \in
          { TopAlerts(df_pe, MIN_POSITIVE_PCT, ALERT_TOP_N) :
              df_pe \in SortByPct(rows_pe) }
    /\ alert_rows' =
          AlertRowsOf(df_pe_alerts', "PE", clock, SYMBOL, Val(underlying))
          \o AlertRowsOf(df_ce_alerts', "CE", clock, SYMBOL, Val(underlying))
    /\ pc' = "write_alerts"
    /\ UNCHANGED << net, log_calls >>
    /\ UNCHANGED << SYMBOL, config, runs, clock, history, alerts,
                    execution_log, stdout, client, spreadsheet, fetchVars,
                    sel, prev_sel, hist_rows, rows_ce, rows_pe >>

\* the alerts write whose failure ends the run before the history write
WriteAlertsOrGiveUp ==
    /\ pc = "write_alerts"
    /\ IF alert_rows # << >>
       THEN \/ /\ alerts' = alerts \o alert_rows
               /\ stdout' = Append(stdout, "Logged alerts")
               /\ pc' = "write_hist"
               /\ UNCHANGED << execution_log, log_calls >>
            \/ /\ UNCHANGED alerts
               /\ stdout' = Append(stdout, "Failed to write alerts")
               /\ execution_log' \in
                     append_execution_log(execution_log, clock, "FAILED",
                                          "Failed to write alerts")
               /\ log_calls' = Called("FAILED")
               /\ pc' = "done"
       ELSE /\ stdout' = Append(stdout, "No alerts by pct-COI ranking")
            /\ pc' = "write_hist"
            /\ UNCHANGED << alerts, execution_log, log_calls >>
    /\ UNCHANGED << net >>
    /\ UNCHANGED << SYMBOL, config, runs, clock, history, client,
                    spreadsheet, fetchVars, sel, prev_sel, hist_rows,
                    diffVars >>

\* nifty.py:433-453
WriteAlerts ==
    /\ pc = "write_alerts"
    /\ IF alert_rows # << >>
       THEN \/ /\ alerts' = alerts \o alert_rows
               /\ stdout' = Append(stdout, "Logged alerts")
               /\ UNCHANGED << execution_log, log_calls >>
            \/ \* append_rows raises
               /\ UNCHANGED alerts
               /\ stdout' = Append(stdout, "Failed to write alerts")
               /\ execution_log' \in
                     append_execution_log(execution_log, clock, "FAILED",
                                          "Failed to write alerts")
               /\ log_calls' = Called("FAILED")
       ELSE /\ stdout' = Append(stdout, "No alerts by pct-COI ranking")
            /\ UNCHANGED << alerts, execution_log, log_calls >>
    /\ pc' = "write_hist"
    /\ UNCHANGED << net >>
    /\ UNCHANGED << SYMBOL, config, runs, clock, history, client,
                    spreadsheet, fetchVars, sel, prev_sel, hist_rows,
                    diffVars >>

\* the history write that is tried again after a failure
WriteHistoryRetried ==
    /\ pc = "write_hist"
    /\ \/ /\ history' = history \o hist_rows
          /\ stdout' = Append(stdout, "Appended history rows")
          /\ pc' = "finalize"
          /\ UNCHANGED << execution_log, log_calls >>
       \/ /\ UNCHANGED history
          /\ stdout' = Append(stdout, "Failed to append history")
          /\ execution_log' \in
                append_execution_log(execution_log, clock, "FAILED",
                                     "Failed to append history")
          /\ log_calls' = Called("FAILED")
          /\ pc' = IF Len(stdout) < 6 THEN "write_hist" ELSE "finalize"
    /\ UNCHANGED << net >>
    /\ UNCHANGED << SYMBOL, config, runs, clock, alerts, client, spreadsheet,
                    fetchVars, sel, prev_sel, hist_rows, diffVars >>

\* nifty.py:455-464
WriteHistory ==
    /\ pc = "write_hist"
    /\ \/ /\ history' = history \o hist_rows
          /\ stdout' = Append(stdout, "Appended history rows")
          /\ UNCHANGED << execution_log, log_calls >>
       \/ \* append_rows raises
          /\ UNCHANGED history
          /\ stdout' = Append(stdout, "Failed to append history")
          /\ execution_log' \in
                append_execution_log(execution_log, clock, "FAILED",
                                     "Failed to append history")
          /\ log_calls' = Called("FAILED")
    /\ pc' = "finalize"
    /\ UNCHANGED << net >>
    /\ UNCHANGED << SYMBOL, config, runs, clock, alerts, client, spreadsheet,
                    fetchVars, sel, prev_sel, hist_rows, diffVars >>

\* the end of main without the call that records COMPLETED
FinalizeUnrecorded ==
    /\ pc = "finalize"
    /\ stdout' = Append(stdout, "Run completed successfully")
    /\ pc' = "done"
    /\ UNCHANGED << net, log_calls, execution_log >>
    /\ UNCHANGED << SYMBOL, config, runs, clock, history, alerts, client,
                    spreadsheet, fetchVars, sel, prev_sel, hist_rows,
                    diffVars >>

\* nifty.py:466-474
Finalize ==
    /\ pc = "finalize"
    /\ execution_log' \in
          append_execution_log(execution_log, clock, "COMPLETED",
                               "Run completed successfully")
    /\ log_calls' = Called("COMPLETED")
    /\ stdout' = Append(stdout, "Run completed successfully")
    /\ pc' = "done"
    /\ UNCHANGED << net >>
    /\ UNCHANGED << SYMBOL, config, runs, clock, history, alerts, client,
                    spreadsheet, fetchVars, sel, prev_sel, hist_rows,
                    diffVars >>

\* nifty.py:492-504: the handler of an exception main() did not catch
UnhandledException ==
    /\ pc = "unhandled"
    /\ stdout' = Append(stdout, "Unhandled exception")
    /\ execution_log' \in
          append_execution_log(execution_log, clock, "FAILED",
                               "Unhandled exception")
    /\ log_calls' = Called("FAILED")
    /\ pc' = "exit2"
    /\ UNCHANGED << net >>
    /\ UNCHANGED << SYMBOL, config, runs, clock, history, alerts, client,
                    spreadsheet, fetchVars, sel, prev_sel, hist_rows,
                    diffVars >>

Next ==
    \/ StartRun
    \/ InitSheets
    \/ FetchAttempt
    \/ Normalize
    \/ FetchFailed
    \/ NoUsableData
    \/ Select
    \/ Connect
    \/ EnsureWorksheets
    \/ ReadPrevious
    \/ PrepareHistory
    \/ PersistSnapshotOnly
    \/ Difference
    \/ Rank
    \/ WriteAlerts
    \/ WriteHistory
    \/ Finalize
    \/ UnhandledException

Spec == Init /\ [][Next]_vars

----------------------------------------------------------------------------
(* The selector on its own: the state of a run that has normalized a       *)
(* payload, for every chain over the strikes 1..MaxStrike, every reference *)
(* price around them and every neighborhood size.                          *)

StrikesOf(S) == UNION { { SortByStrike({ [strike |-> k] : k \in K }) } :
                        K \in S }

PickMarket ==
    { Payload([ i \in 1..Len(s) |-> RawEntry(s[i].strike, s[i].strike, 1, 0, 0) ],
              Some(u)) :
        s \in StrikesOf(SUBSET (1..MaxStrike)), u \in 0..(MaxStrike + 1) }

InitPick ==
    /\ pc = "check_data"
    /\ SYMBOL = "NIFTY"
    /\ NEAREST_STRIKES \in 1..MaxStrike
    /\ ALERT_TOP_N = 1
    /\ MIN_POSITIVE_PCT = DefaultThreshold
    /\ runs = 1
    /\ clock = 1
    /\ history = << >>
    /\ client = TRUE
    /\ spreadsheet = TRUE
    /\ attempt = 0
    /\ net = << >>
    /\ log_calls = << [status |-> "STARTED", ok |-> TRUE] >>
    /\ \E p \in PickMarket :
          /\ data = Some(p)
          /\ df = IF Len(p.data) > 0 THEN DF(records_to_df(p.data).rows)
                  ELSE NoneDF
          /\ underlying = p.underlyingValue
    /\ sel = << >>
    /\ prev_sel = NoneDF
    /\ hist_rows = << >>
    /\ rows_ce = << >>
    /\ rows_pe = << >>
    /\ df_ce_alerts = << >>
    /\ df_pe_alerts = << >>
    /\ alert_rows = << >>
    /\ alerts = << >>
    /\ execution_log = << LogRow(1, "STARTED", "started") >>
    /\ stdout = << >>

NextPick == Select \/ NoUsableData

SpecPick == InitPick /\ [][NextPick]_vars

----------------------------------------------------------------------------
(* The differencer and the ranker on their own: the state of a run that    *)
(* has read a previous snapshot and prepared its history rows.  Every one  *)
(* of the strikes 1..MaxStrike is given one of the profiles below: what    *)
(* the previous snapshot holds for it (nothing, or its open interest) and  *)
(* the change in open interest the current chain reports for it.           *)

\* prev: None, or (CE_OI, PE_OI) in the previous snapshot;
\* coi: (CE_COI, PE_COI) now.  The current open interest is 5 on both sides.
Profile(prev, coi) == [prev |-> prev, coi |-> coi]

Profiles ==
    { Profile(None, << 1, 2 >>),
      Profile(None, << -1, 0 >>),
      Profile(Some(<< 0, 2 >>), << 1, -1 >>),
      Profile(Some(<< 0, 0 >>), << -1, 0 >>),
      Profile(Some(<< 1, 0 >>), << 1, 1 >>),
      Profile(Some(<< 2, 1 >>), << 2, 0 >>),
      Profile(Some(<< 2, 1 >>), << -1, 2 >>),
      Profile(Some(<< 2, 2 >>), << 1, 1 >>) }

\* the chain the endpoint answers with
ChainOf(f) ==
    [ i \in 1..MaxStrike |-> RawEntry(i, 5, f[i].coi[1], 5, f[i].coi[2]) ]

\* the history sheet after one earlier run: one snapshot, stamped 1
HistoryOf(f) ==
    LET held == SortByStrike({ [strike |-> k] :
                    k \in { i \in 1..MaxStrike : ~IsNone(f[i].prev) } })
    IN  [ i \in 1..Len(held) |->
            HistRow([ strike |-> held[i].strike,
                      CE_OI |-> Val(f[held[i].strike].prev)[1],
                      CE_COI |-> 0, CE_IV |-> 0,
                      PE_OI |-> Val(f[held[i].strike].prev)[2],
                      PE_COI |-> 0, PE_IV |-> 0 ],
                    1, "NIFTY", 2) ]

Thresholds == { Zero, DefaultThreshold, Quot(1, 1) }

InitDiff ==
    /\ pc = "difference"
    /\ SYMBOL = "NIFTY"
    /\ NEAREST_STRIKES = MaxStrike
    /\ runs = 2
    /\ clock = 2
    /\ client = TRUE
    /\ spreadsheet = TRUE
    /\ attempt = 0
    /\ net = << >>
    /\ log_calls = << [status |-> "STARTED", ok |-> TRUE] >>
    /\ \E f \in [1..MaxStrike -> Profiles] :
          /\ \E i \in 1..MaxStrike : ~IsNone(f[i].prev)
          /\ history = HistoryOf(f)
          /\ data = Some(Payload(ChainOf(f), Some(2)))
          /\ df = DF(records_to_df(ChainOf(f)).rows)
    /\ underlying = Some(2)
    /\ sel \in pick_nearest(df.rows, Val(underlying), NEAREST_STRIKES)
    /\ prev_sel = read_previous(history, SYMBOL)
    /\ hist_rows = [ i \in 1..Len(sel) |->
                       HistRow(sel[i], clock, SYMBOL, Val(underlying)) ]
    /\ rows_ce = << >>
    /\ rows_pe = << >>
    /\ df_ce_alerts = << >>
    /\ df_pe_alerts = << >>
    /\ alert_rows = << >>
    /\ alerts = << >>
    /\ execution_log = << LogRow(2, "STARTED", "started") >>
    /\ stdout = << >>
    /\ ALERT_TOP_N \in 1..2
    /\ MIN_POSITIVE_PCT \in Thresholds

NextDiff == Difference \/ Rank

SpecDiff == InitDiff /\ [][NextDiff]_vars

----------------------------------------------------------------------------
(* The normalizer on its own: the state of a run whose first fetch attempt *)
(* has returned a payload of up to two entries, an entry being well formed *)
(* or having one kind of ill-formed field, side or strike.                 *)

FieldValues == { RawNum(2), RawDec(27), RawDec(-15), RawNull, RawStr }

\* a side object whose three fields hold v
SideOf(v) ==
    [ t |-> "obj", openInterest |-> v, changeinOpenInterest |-> v,
      impliedVolatility |-> v ]

NormEntries ==
    { [strikePrice |-> s, CE |-> SideOf(v), PE |-> RawSide(1, 1)] :
        s \in 1..MaxStrike, v \in FieldValues }
    \cup { [strikePrice |-> 1, PE |-> RawSide(1, 1)],
           [strikePrice |-> 1, CE |-> EmptyObj, PE |-> EmptyObj],
           [strikePrice |-> 1, CE |-> [t |-> "null"], PE |-> RawSide(1, 1)],
           [CE |-> RawSide(1, 1), PE |-> RawSide(1, 1)],
           [strikePrice |-> NaN, CE |-> RawSide(1, 1), PE |-> RawSide(1, 1)] }

NormMarket ==
    { Payload(entries, Some(1)) :
        entries \in { << >> } \cup { << a >> : a \in NormEntries }
                    \cup { << a, b >> : a \in NormEntries, b \in NormEntries } }

InitNorm ==
    /\ pc = "normalize"
    /\ SYMBOL = "NIFTY"
    /\ NEAREST_STRIKES = 2
    /\ ALERT_TOP_N = 1
    /\ MIN_POSITIVE_PCT = DefaultThreshold
    /\ runs = 1
    /\ clock = 1
    /\ history = << >>
    /\ client = TRUE
    /\ spreadsheet = TRUE
    /\ attempt = 0
    /\ net = << Jitter, Request("ok") >>
    /\ log_calls = << [status |-> "STARTED", ok |-> TRUE] >>
    /\ \E p \in NormMarket : data = Some(p)
    /\ df = NoneDF
    /\ underlying = None
    /\ sel = << >>
    /\ prev_sel = NoneDF
    /\ hist_rows = << >>
    /\ rows_ce = << >>
    /\ rows_pe = << >>
    /\ df_ce_alerts = << >>
    /\ df_pe_alerts = << >>
    /\ alert_rows = << >>
    /\ alerts = << >>
    /\ execution_log = << LogRow(1, "STARTED", "started") >>
    /\ stdout = << >>

NextNorm == Normalize \/ FetchFailed \/ NoUsableData

SpecNorm == InitNorm /\ [][NextNorm]_vars

----------------------------------------------------------------------------
(* Properties.                                                             *)

Sides == { "CE", "PE" }

\* the DiffRows of a side, empty until the differencer has run
RowsOf(side) == IF side = "CE" THEN rows_ce ELSE rows_pe

\* the ranked alerts of a side, empty until the ranker has run
AlertsOf(side) == IF side = "CE" THEN df_ce_alerts ELSE df_pe_alerts

\* the strikes of the previous snapshot the run read
PrevStrikes == { prev_sel.rows[i].strike : i \in 1..Len(prev_sel.rows) }

\* the differencer has run
Differenced == pc \in { "rank", "write_alerts", "write_hist", "finalize" }

\* the ranker has run
Ranked == pc \in { "write_alerts", "write_hist", "finalize" }

\* C1: in the differencing step, when a previous snapshot exists but has no
\* row for a current strike s and the change in open interest of a side at
\* s is > 0, then prev_oi = 0 and pct_coi = curr_coi / 1e-9.
C1_NoPrevRowGivesCoiOverEps ==
    Differenced =>
        \A side \in Sides : \A i \in 1..Len(RowsOf(side)) :
            LET d == RowsOf(side)[i]
            IN  (d.strike \notin PrevStrikes /\ d.coi > 0)
                    => (d.prev_oi = 0 /\ d.pct_coi = QuotEps(d.coi))

\* the rows of history that carry a symbol
RowsOfSymbol(hist, symbol) == SelectSeq(hist, LAMBDA h : h.symbol = symbol)

\* the latest snapshot of a symbol: its rows with its latest time stamp
LatestSnapshotOf(hist, symbol) ==
    LET own == RowsOfSymbol(hist, symbol)
    IN  SelectSeq(own, LAMBDA h : h.timestamp = MaxTimestamp(own))

ReadSucceeded ==
    pc = "prep_hist" /\ \A i \in 1..Len(stdout) : stdout[i] # "Could not read history"

\* C2: the previous neighborhood a run diffs against is the latest persisted
\* snapshot of the run's own symbol, and the read reports 'no previous'
\* only when history holds no row of that symbol.
C2_PreviousIsLatestOfSymbol ==
    ReadSucceeded =>
        LET own == RowsOfSymbol(history, SYMBOL)
        IN  /\ (~prev_sel.some) <=> (own = << >>)
            /\ own # << >> =>
                  LET snap == LatestSnapshotOf(history, SYMBOL)
                  IN  prev_sel.rows = [ i \in 1..Len(snap) |-> PrevRow(snap[i]) ]

Printed(line) == \E i \in 1..Len(stdout) : stdout[i] = line

Logged(status) == \E i \in 1..Len(execution_log) : execution_log[i].status = status

\* C3: a run whose history append or alerts append failed does not
\* afterwards record COMPLETED in the execution log, nor print "Run
\* completed successfully".
C3_FailedWriteNotReportedCompleted ==
    (Printed("Failed to append history") \/ Printed("Failed to write alerts"))
        => (~Logged("COMPLETED") /\ ~Printed("Run completed successfully"))

\* the current row of a strike
CurrentRow(s) == CHOOSE r \in Range(sel) : r.strike = s

\* C4: for every strike and side, if curr_coi <= 0 then pct_coi = 0.0
\* whatever prev_oi is, and (the threshold being >= 0) no alert row is
\* emitted for that strike and side, whatever the other strikes hold.
C4_NonPositiveCoiNeverAlerts ==
    /\ Differenced =>
          \A side \in Sides : \A i \in 1..Len(RowsOf(side)) :
              LET d == RowsOf(side)[i]
              IN  /\ d.coi = COI(sel[i], side)
                  /\ d.coi <= 0 => d.pct_coi = Zero
    /\ Ranked =>
          /\ \A i \in 1..Len(alert_rows) :
                COI(CurrentRow(alert_rows[i].strike), alert_rows[i].side) > 0
          /\ \A side \in Sides : \A i \in 1..Len(AlertsOf(side)) :
                COI(CurrentRow(AlertsOf(side)[i].strike), side) > 0

\* a negative change at a strike with previous open interest, threshold 0,
\* while another strike of the side alerts
C4_Witness ==
    /\ pc = "write_alerts"
    /\ MIN_POSITIVE_PCT = Zero
    /\ Len(df_ce_alerts) > 0
    /\ \E i \in 1..Len(rows_ce) :
          /\ rows_ce[i].coi < 0
          /\ rows_ce[i].prev_oi > 0
          /\ rows_ce[i].pct_coi = Zero

\* the entry of the previous snapshot for a strike it holds
PrevRowOf(s) == CHOOSE p \in Range(prev_sel.rows) : p.strike = s

\* C5: for every current strike present in the previous snapshot and each
\* side with curr_coi > 0, pct_coi = curr_coi / max(prev_oi, 1e-9), prev_oi
\* being the previous open interest of that strike and side; with
\* prev_oi = 0 it is curr_coi / 1e-9: the divisor is never zero.
C5_PctCoiIsCoiOverGuardedPrevOi ==
    Differenced =>
        \A side \in Sides : \A i \in 1..Len(RowsOf(side)) :
            LET d == RowsOf(side)[i]
            IN  (d.strike \in PrevStrikes /\ COI(sel[i], side) > 0) =>
                    LET prev == OI(PrevRowOf(d.strike), side)
                    IN  /\ d.strike = sel[i].strike
                        /\ d.prev_oi = prev
                        /\ d.pct_coi.num = COI(sel[i], side)
                        /\ prev >= 1 =>
                              (d.pct_coi.den = prev /\ ~d.pct_coi.eps)
                        /\ prev = 0 => d.pct_coi = QuotEps(COI(sel[i], side))
                        /\ d.pct_coi.den >= 1

\* a positive change at a strike whose previous open interest is 0
C5_Witness ==
    /\ pc = "rank"
    /\ \E i \in 1..Len(rows_ce) :
          /\ rows_ce[i].strike \in PrevStrikes
          /\ rows_ce[i].coi > 0
          /\ rows_ce[i].prev_oi = 0
          /\ rows_ce[i].pct_coi = QuotEps(rows_ce[i].coi)

\* history after the append is history before it followed by one row per
\* selected strike, in order, carrying the run's symbol and the row's values
IsSnapshotAppend(before, after, cur, symbol) ==
    /\ Len(after) = Len(before) + Len(cur)
    /\ SubSeq(after, 1, Len(before)) = before
    /\ \A i \in 1..Len(cur) :
          /\ after[Len(before) + i].symbol = symbol
          /\ PrevRow(after[Len(before) + i]) = cur[i]

NoPrevious == ~prev_sel.some \/ prev_sel.rows = << >>

\* C6, as stated: with no previous snapshot available the run skips
\* differencing and ranking, appends no row to alerts, appends to history
\* exactly the current neighborhood, once, and stops.
C6_NoPreviousPersistsSnapshot ==
    [][ /\ (pc = "prep_hist" /\ NoPrevious) => pc' = "persist_only"
        /\ pc = "persist_only" =>
              /\ pc' = "done"
              /\ alerts' = << >> /\ alert_rows' = << >>
              /\ rows_ce' = << >> /\ rows_pe' = << >>
              /\ IsSnapshotAppend(history, history', sel, SYMBOL) ]_vars

\* C6, amended: the same, unless the history append itself raises; then
\* history is left as it was and the failure is printed.
C6_NoPreviousPersistsSnapshotOrReports ==
    [][ /\ (pc = "prep_hist" /\ NoPrevious) => pc' = "persist_only"
        /\ pc = "persist_only" =>
              /\ pc' = "done"
              /\ alerts' = << >> /\ alert_rows' = << >>
              /\ rows_ce' = << >> /\ rows_pe' = << >>
              /\ \/ /\ IsSnapshotAppend(history, history', sel, SYMBOL)
                    /\ stdout' = stdout \o
                          << "Appended history rows",
                             "No previous snapshot for comparison" >>
                 \/ /\ history' = history
                    /\ stdout' = Append(stdout, "Failed to append history") ]_vars

\* a finished run of a symbol history held no row of, with the snapshot
\* at the end of history
C6_Witness ==
    /\ pc = "done"
    /\ NoPrevious
    /\ Printed("Appended history rows")
    /\ Len(sel) = 2
    /\ Len(history) >= 4
    /\ alerts = << >>
    /\ SubSeq(history, Len(history) - 1, Len(history)) = hist_rows

\* the indexes of the DiffRows of a side whose pct_coi exceeds the threshold
QualifyingIdx(side) ==
    { i \in 1..Len(RowsOf(side)) :
        PctGT(RowsOf(side)[i].pct_coi, MIN_POSITIVE_PCT) }

\* C7: for each side the alert list has length min(top_n, number of
\* DiffRows with pct_coi > threshold), every emitted alert has pct_coi
\* strictly above the threshold, and an empty qualifying set yields no alert.
C7_AlertCountAndThreshold ==
    Ranked =>
        \A side \in Sides :
            /\ Len(AlertsOf(side)) =
                  Min(ALERT_TOP_N, Cardinality(QualifyingIdx(side)))
            /\ Len(AlertsOf(side)) <= ALERT_TOP_N
            /\ \A i \in 1..Len(AlertsOf(side)) :
                  PctGT(AlertsOf(side)[i].pct_coi, MIN_POSITIVE_PCT)
            /\ QualifyingIdx(side) = {} => AlertsOf(side) = << >>

\* more qualifying CE rows than top_n, and no qualifying PE row
C7_Witness ==
    /\ pc = "write_alerts"
    /\ Cardinality(QualifyingIdx("CE")) > ALERT_TOP_N
    /\ Len(df_ce_alerts) = ALERT_TOP_N
    /\ QualifyingIdx("PE") = {}
    /\ df_pe_alerts = << >>
    /\ \E i \in 1..Len(rows_pe) : rows_pe[i].pct_coi = MIN_POSITIVE_PCT

\* the rows of the alert batch of one side, in batch order
BatchOf(side) == SelectSeq(alert_rows, LAMBDA a : a.side = side)

\* C8: for each side the emitted alerts are the qualifying DiffRows of
\* highest pct_coi: they are in non-increasing pct_coi order, no omitted
\* qualifying row has a pct_coi above an emitted one, and their ranks are
\* 1..k in output order.
C8_TopRowsInOrderWithDenseRanks ==
    Ranked =>
        \A side \in Sides :
            LET al == AlertsOf(side)
                rws == RowsOf(side)
                out == BatchOf(side)
            IN  /\ \A i \in 1..(Len(al) - 1) :
                      PctGE(al[i].pct_coi, al[i + 1].pct_coi)
                /\ \A i \in 1..Len(al) : al[i] \in Range(rws)
                /\ \A i, j \in 1..Len(al) : i # j => al[i].strike # al[j].strike
                /\ \A j \in QualifyingIdx(side) :
                      rws[j] \notin Range(al) =>
                          \A i \in 1..Len(al) :
                              PctGE(al[i].pct_coi, rws[j].pct_coi)
                /\ Len(out) = Len(al)
                /\ \A i \in 1..Len(out) :
                      /\ out[i].event_rank = i
                      /\ out[i].strike = al[i].strike
                      /\ out[i].pct_coi = al[i].pct_coi

\* two CE alerts of different pct_coi, a third qualifying row left out
C8_Witness ==
    /\ pc = "write_alerts"
    /\ Len(df_ce_alerts) = 2
    /\ PctGT(df_ce_alerts[1].pct_coi, df_ce_alerts[2].pct_coi)
    /\ Cardinality(QualifyingIdx("CE")) = 3
    /\ Len(df_pe_alerts) > 0
    /\ BatchOf("CE")[2].event_rank = 2

\* the place of the row of a strike in the alerts of a side, 0 when absent
PlaceOf(side, s) ==
    IF \E k \in 1..Len(AlertsOf(side)) : AlertsOf(side)[k].strike = s
    THEN CHOOSE k \in 1..Len(AlertsOf(side)) : AlertsOf(side)[k].strike = s
    ELSE 0

\* C9: when two strikes of a side have equal pct_coi above the threshold,
\* both are retained subject to top_n and their order is that of the
\* ascending-strike input: the higher strike is emitted only after the
\* lower one, with the next rank.
C9_TiesKeepInputOrder ==
    Ranked =>
        \A side \in Sides :
            \A i, j \in QualifyingIdx(side) :
                ( /\ i < j
                  /\ PctEq(RowsOf(side)[i].pct_coi, RowsOf(side)[j].pct_coi)
                  /\ PlaceOf(side, RowsOf(side)[j].strike) # 0 )
                => /\ PlaceOf(side, RowsOf(side)[i].strike) # 0
                   /\ PlaceOf(side, RowsOf(side)[i].strike)
                         < PlaceOf(side, RowsOf(side)[j].strike)

\* C10: pick_nearest returns min(n, len(df)) records, strictly ascending
\* by strike, each at most as far from the reference as every record it
\* leaves out; an empty table gives an empty result.
C10_PickNearest ==
    /\ pc = "connect" =>
          /\ Len(sel) = Min(NEAREST_STRIKES, Len(df.rows))
          /\ \A i \in 1..(Len(sel) - 1) : sel[i].strike < sel[i + 1].strike
          /\ \A i \in 1..Len(sel) : sel[i] \in Range(df.rows)
          /\ \A r \in Range(sel) : \A q \in Range(df.rows) \ Range(sel) :
                Dist(r, Val(underlying)) <= Dist(q, Val(underlying))
    /\ ~IsNone(underlying) =>
          pick_nearest(<< >>, Val(underlying), NEAREST_STRIKES) = { << >> }
    /\ (df.some /\ ~IsNone(underlying)) =>
          pick_nearest(df.rows, Val(underlying), NEAREST_STRIKES) # {}

\* a table of three strikes cut to two, the reference between its ends,
\* the nearest strike and one of the two equally far ones selected
C10_Witness ==
    /\ pc = "connect"
    /\ Len(df.rows) = 3
    /\ NEAREST_STRIKES = 2
    /\ underlying = Some(2)
    /\ Len(sel) = 2
    /\ sel[1].strike = 2
    /\ sel[2].strike = 3

\* the fetch of the run has failed: fetch_option_chain_direct or the
\* normalization raised, or no usable table came out of the payload
FetchHasFailed ==
    \/ pc = "fetch_failed"
    \/ Printed("Primary fetch failed")
    \/ (pc = "check_data" /\ (~df.some \/ df.rows = << >>))

LoggedIn(log, status) == \E i \in 1..Len(log) : log[i].status = status

\* C11, as stated: after a fetch failure the run appends no row to history
\* and none to alerts, reaches no later stage, returns normally and has
\* recorded FAILED.
C11_FetchFailureStopsAndRecordsFailed ==
    [][ (FetchHasFailed /\ pc # "done") =>
            /\ history' = history
            /\ alerts' = alerts
            /\ pc' \in { "check_data", "done" }
            /\ pc' = "done" => LoggedIn(execution_log', "FAILED") ]_vars

\* C11, amended: the same, FAILED being recorded when the execution log is
\* available: the failure is always printed, every status the run tries
\* to record after STARTED is FAILED, one is tried whenever the spreadsheet
\* was opened, and a try that succeeds leaves a FAILED row.
C11_FetchFailureStopsAndReportsFailed ==
    [][ (FetchHasFailed /\ pc # "done") =>
            /\ history' = history
            /\ alerts' = alerts
            /\ pc' \in { "check_data", "done" }
            /\ pc' = "done" =>
                  /\ stdout'[Len(stdout')] = "No usable NSE data available"
                  /\ ~LoggedIn(execution_log', "COMPLETED")
                  /\ spreadsheet =>
                        \E i \in 1..Len(log_calls') :
                            log_calls'[i].status = "FAILED"
                  /\ \A i \in 1..Len(log_calls') :
                        log_calls'[i].status \in { "STARTED", "FAILED" }
                  /\ (\E i \in 1..Len(log_calls') :
                          log_calls'[i].status = "FAILED" /\ log_calls'[i].ok)
                        => LoggedIn(execution_log', "FAILED") ]_vars

\* a run stopped after three failed attempts, FAILED recorded twice, with
\* the history of an earlier run in the sheet
C11_Witness ==
    /\ pc = "done"
    /\ attempt = Retries - 1
    /\ IsNone(data)
    /\ Printed("Primary fetch failed")
    /\ Printed("No usable NSE data available")
    /\ Len(SelectSeq(execution_log, LAMBDA r : r.status = "FAILED")) = 2
    /\ history # << >>
    /\ alerts = << >>

\* C12: a fetch attempt succeeds only with a payload that holds both the
\* list of entries and a reference price; a payload without a reference
\* price is a failed attempt, so the selector is never reached with a
\* missing reference price.
C12_FetchSucceedsOnlyWithReferencePrice ==
    /\ pc = "normalize" => ~IsNone(Val(data).underlyingValue)
    /\ (pc = "check_data" /\ df.some /\ df.rows # << >>) => ~IsNone(underlying)
    /\ pc = "unhandled" => ~(sel = << >> /\ df.some /\ IsNone(underlying))

\* the requests of a sequence of network events
Gets(events) == SelectSeq(events, LAMBDA e : e.ev = "get")

\* C13: fetch_option_chain_direct makes at most `retries` request attempts,
\* each pass of its loop being the next attempt; it returns the data of
\* the first attempt that succeeds, with no request after it, and when
\* every attempt has failed it raises, returning no data.
C13_FetchEndsWithinRetries ==
    [][ /\ Len(Gets(net')) <= Retries
        /\ (pc = "fetch" /\ pc' = "fetch") =>
              /\ attempt' = attempt + 1
              /\ attempt' <= Retries - 1
              /\ Len(Gets(net')) = attempt'
              /\ \A i \in 1..Len(net') : net'[i].how # "ok"
        /\ (pc = "fetch" /\ pc' = "normalize") =>
              /\ Len(Gets(net')) = attempt + 1
              /\ net'[Len(net')] = Request("ok")
              /\ \A i \in 1..Len(net) : net[i].how # "ok"
              /\ ~IsNone(data')
        /\ (pc = "fetch" /\ pc' = "fetch_failed") =>
              /\ Len(Gets(net')) = Retries
              /\ \A i \in 1..Len(net') : net'[i].how # "ok"
              /\ IsNone(data')
        /\ pc = "fetch" => pc' \in { "fetch", "normalize", "fetch_failed" }
        /\ pc # "fetch" => (net' = << >> /\ data' \in { data, None }) ]_vars

\* data returned by the third attempt, after a bad answer and an exception
C13_Witness ==
    /\ pc = "normalize"
    /\ Len(Gets(net)) = Retries
    /\ Gets(net)[1].how = "bad"
    /\ Gets(net)[2].how = "raised"
    /\ Gets(net)[3].how = "ok"
    /\ ~IsNone(data)

TerminalStatuses == { "COMPLETED", "FAILED" }

\* the run has ended: main returned, or the process exited with status 2
Ended(p) == p \in { "done", "exit2" }

\* C14: a run that logged STARTED, on whatever path it ends, has tried to
\* record COMPLETED or FAILED, and has appended such a row when the
\* execution log was available to each of its calls; a call that fails to
\* write the execution log does not abort the run.
C14_TerminalStatusRecorded ==
    [][ /\ (Ended(pc') /\ ~Ended(pc) /\ LoggedIn(execution_log', "STARTED")) =>
              /\ \E i \in 1..Len(log_calls') :
                    log_calls'[i].status \in TerminalStatuses
              /\ (\A i \in 1..Len(log_calls') : log_calls'[i].ok) =>
                    \E i \in 1..Len(execution_log') :
                        execution_log'[i].status \in TerminalStatuses
        /\ ( /\ Len(log_calls') = Len(log_calls) + 1
             /\ ~log_calls'[Len(log_calls')].ok ) =>
              /\ execution_log' = execution_log
              /\ pc' # "unhandled"
              /\ pc = "unhandled" => pc' = "exit2" ]_vars

\* a run that logged STARTED and died of an exception main does not catch,
\* FAILED recorded by the handler
C14_Witness ==
    /\ pc = "exit2"
    /\ Len(execution_log) = 2
    /\ execution_log[1].status = "STARTED"
    /\ execution_log[2].status = "FAILED"
    /\ execution_log[2].details = "Unhandled exception"

IsPrefix(s, u) == Len(s) <= Len(u) /\ SubSeq(u, 1, Len(s)) = s

LastLine(out) == out[Len(out)]

\* C15: when the alerts append fails the failure is reported and the
\* history append is still attempted in the same run; no step of a run
\* removes rows an earlier append wrote: a failed history append leaves the
\* alerts written before it, and the sheets only grow.
C15_BestEffortPersistence ==
    [][ /\ pc = "write_alerts" =>
              /\ pc' = "write_hist"
              /\ history' = history
              /\ \/ alerts' = alerts \o alert_rows
                 \/ /\ alerts' = alerts
                    /\ alert_rows # << >> =>
                          /\ LastLine(stdout') = "Failed to write alerts"
                          /\ Len(log_calls') = Len(log_calls) + 1
                          /\ log_calls'[Len(log_calls')].status = "FAILED"
        /\ pc = "write_hist" =>
              /\ alerts' = alerts
              /\ \/ /\ history' = history \o hist_rows
                    /\ LastLine(stdout') = "Appended history rows"
                 \/ /\ history' = history
                    /\ LastLine(stdout') = "Failed to append history"
                    /\ log_calls'[Len(log_calls')].status = "FAILED"
        /\ IsPrefix(history, history')
        /\ ~Ended(pc) => IsPrefix(alerts, alerts') ]_vars

\* the alerts append failed and the history append of the same run went
\* through
C15_Witness ==
    /\ pc = "finalize"
    /\ Printed("Failed to write alerts")
    /\ alert_rows # << >>
    /\ alerts = << >>
    /\ LastLine(stdout) = "Appended history rows"
    /\ Len(history) > Len(hist_rows)
    /\ SubSeq(history, Len(history) - Len(hist_rows) + 1, Len(history)) = hist_rows

\* the alerts append went through and the history append failed
C15_WitnessAlertsKept ==
    /\ pc = "finalize"
    /\ alerts = alert_rows
    /\ alerts # << >>
    /\ LastLine(stdout) = "Failed to append history"

\* the value the claim gives a numeric field: 0 when the side or the field
\* is missing, null or no number, else the number (truncated for the ints)
Coerced(rec, side, key, asInt) ==
    IF side \notin DOMAIN rec THEN 0
    ELSE IF key \notin DOMAIN rec[side] THEN 0
    ELSE IF rec[side][key].t # "num" THEN 0
    ELSE IF asInt THEN TruncTenths(rec[side][key].v) ELSE rec[side][key].v

\* the row the claim gives an entry
CoercedRow(rec, strike) ==
    [ strike |-> strike,
      CE_OI  |-> Coerced(rec, "CE", "openInterest", TRUE),
      CE_COI |-> Coerced(rec, "CE", "changeinOpenInterest", TRUE),
      CE_IV  |-> Coerced(rec, "CE", "impliedVolatility", FALSE),
      PE_OI  |-> Coerced(rec, "PE", "openInterest", TRUE),
      PE_COI |-> Coerced(rec, "PE", "changeinOpenInterest", TRUE),
      PE_IV  |-> Coerced(rec, "PE", "impliedVolatility", FALSE) ]

\* every row of the table holds the values the claim gives one of the entries
C16_ValuesCoerced ==
    (pc = "check_data" /\ df.some) =>
        \A r \in Range(df.rows) :
            \E i \in 1..Len(Val(data).data) :
                r = CoercedRow(Val(data).data[i], r.strike)

\* C16: records_to_df never raises: for any sequence of raw entries every
\* field that is missing, null or no number (a missing or null side object
\* included) yields 0, and every numeric field yields its coerced value.
C16_RecordsToDfNeverRaises ==
    /\ pc # "fetch_failed"
    /\ ~Printed("Primary fetch failed")
    /\ C16_ValuesCoerced

\* entry i of the records has no strike, or a null one
StrikeMissing(rec) ==
    "strikePrice" \notin DOMAIN rec \/ rec.strikePrice = NaN

\* C17: the table of records_to_df has no two rows of one strike and is in
\* ascending order of strike; of the entries sharing a strike the first is
\* kept; an entry with an absent or invalid strike gets strike 0.
C17_UniqueAscendingStrikes ==
    (pc = "check_data" /\ df.some) =>
        LET records == Val(data).data
            StrikeOf(i) == IF StrikeMissing(records[i]) THEN 0
                           ELSE records[i].strikePrice
            First(s) == CHOOSE i \in 1..Len(records) :
                            /\ StrikeOf(i) = s
                            /\ \A j \in 1..(i - 1) : StrikeOf(j) # s
        IN  /\ \A i \in 1..(Len(df.rows) - 1) :
                  df.rows[i].strike < df.rows[i + 1].strike
            /\ { df.rows[i].strike : i \in 1..Len(df.rows) }
                  = { StrikeOf(i) : i \in 1..Len(records) }
            /\ \A i \in 1..Len(df.rows) :
                  df.rows[i] = CoercedRow(records[First(df.rows[i].strike)],
                                          df.rows[i].strike)

\* a run is under way
InRun(p) == p \notin { "idle", "done", "exit2" }

\* the place of a statement of main in the order of the stages
StageNo(p) ==
    CASE p \in { "idle", "init_sheets" } -> 0
      [] p = "fetch" -> 1
      [] p = "normalize" -> 2
      [] p = "fetch_failed" -> 3
      [] p = "check_data" -> 4
      [] p = "select" -> 5
      [] p = "connect" -> 6
      [] p = "ensure_ws" -> 7
      [] p = "read_prev" -> 8
      [] p = "prep_hist" -> 9
      [] p \in { "persist_only", "difference" } -> 10
      [] p = "rank" -> 11
      [] p = "write_alerts" -> 12
      [] p = "write_hist" -> 13
      [] p = "finalize" -> 14
      [] p = "unhandled" -> 15
      [] OTHER -> 16

\* C18: within a run the stages come in the order fetch, normalize, select,
\* read previous, difference, rank, alerts append, history append, each at
\* most once (the fetch alone repeats, as its retries): the previous
\* snapshot is read before any history row is appended, the alerts append
\* comes before the history append, and each append is tried once.
C18_StagesInOrder ==
    [][ /\ InRun(pc) =>
              \/ StageNo(pc') > StageNo(pc)
              \/ pc = "fetch" /\ pc' = "fetch"
        /\ prev_sel' # prev_sel => (pc = "read_prev" \/ ~InRun(pc))
        /\ sel' # sel => (pc = "check_data" \/ ~InRun(pc))
        /\ rows_ce' # rows_ce => (pc = "difference" \/ ~InRun(pc))
        /\ alert_rows' # alert_rows => (pc = "rank" \/ ~InRun(pc))
        /\ alerts' # alerts => (pc = "write_alerts" \/ ~InRun(pc))
        /\ history' # history =>
              /\ pc \in { "persist_only", "write_hist" }
              /\ history' = history \o hist_rows ]_vars

\* a run that went through every stage: alerts written, then history
C18_Witness ==
    /\ pc = "finalize"
    /\ rows_ce # << >>
    /\ alerts = alert_rows
    /\ alerts # << >>
    /\ Len(stdout) = 2
    /\ stdout[1] = "Logged alerts"
    /\ stdout[2] = "Appended history rows"
    /\ Len(history) = Len(prev_sel.rows) + Len(hist_rows)

\* the number of requests among the first n network events
GetsBefore(n) == Len(Gets(SubSeq(net, 1, n)))

\* C19: every request after the first is preceded by a backoff wait of 5 s
\* times the number of attempts failed so far, and by the jitter, whatever
\* way the attempt before it failed; no backoff wait follows the last
\* attempt.
C19_BackoffBeforeEveryRetry ==
    /\ \A i \in 1..Len(net) :
          (net[i].ev = "get" /\ GetsBefore(i - 1) > 0) =>
              /\ i >= 3
              /\ net[i - 1] = Jitter
              /\ net[i - 2] = Backoff(5 * GetsBefore(i - 1))
    /\ \A i \in 1..Len(net) :
          (net[i].ev = "get" /\ GetsBefore(i - 1) = 0) =>
              (i = 2 /\ net[1] = Jitter)
    /\ \A i \in 1..Len(net) :
          net[i].ev = "backoff" => GetsBefore(i) < Retries

\* the rows a run prepared carry one and the same timestamp
OneTimestamp(rows) ==
    \A i, j \in 1..Len(rows) : rows[i].timestamp = rows[j].timestamp

\* df holds every strike of rows exactly once, and nothing else
SameNeighborhood(prev, rows) ==
    /\ prev.some
    /\ Len(prev.rows) = Len(rows)
    /\ \A i \in 1..Len(rows) :
          Cardinality({ j \in 1..Len(prev.rows) :
                          prev.rows[j].strike = rows[i].strike }) = 1

\* C20: the history rows a run appends carry one timestamp, and what the
\* next run of the symbol reads back as the latest snapshot holds every
\* strike of this run's neighborhood exactly once.
C20_SnapshotReadBackWhole ==
    [][ history' # history =>
          /\ OneTimestamp(hist_rows)
          /\ SameNeighborhood(read_previous(history', SYMBOL), hist_rows)
      ]_vars

=============================================================================
